---- MODULE Spec2Model ----
(***************************************************************************)
(* A model of log10/feedback/feedback.py: the Feedback client (create,     *)
(* list, the shared log-and-reraise handler) and the two click commands    *)
(* create-feedback and list-feedback.                                      *)
(*                                                                         *)
(* Python values are modelled as follows.                                  *)
(*   - A text that the code takes apart or glues together (the selector,   *)
(*     the --values string, the URL, a joined id list) is a sequence of    *)
(*     pieces; concatenation of texts is \o.                               *)
(*   - An optional opaque string (task_id, comment) is None or Str(s).     *)
(*   - A JSON value is a record tagged by kind; an object keeps its        *)
(*     members as an ordered sequence of <<key, value>> pairs, as a Python *)
(*     dict keeps insertion order.                                         *)
(*   - An exception is a record tagged by type; it has the attribute       *)
(*     response exactly when the record has the field response.            *)
(*   - What one call does is a trace: the sequence of its observable       *)
(*     events (request sent, logger.error, click.echo / console.print,     *)
(*     and last its return or the exception that leaves it).               *)
(***************************************************************************)
EXTENDS Integers, Sequences, FiniteSets, TLC

VARIABLES log10_config, http_headers, history

vars == <<log10_config, http_headers, history>>

----------------------------------------------------------------------------
(* Bounds of the model *)

\* the number of create / list calls made on one client instance
MaxCalls == 2
\* the length of the --completion_tags_selector text
MaxSel == 3
\* the length of the data array of a list response
MaxData == 2
\* the number of calls in a session of one client instance
MaxSession == 3

----------------------------------------------------------------------------
(* Python values *)

None == <<>>
Str(s) == <<s>>

\* bool(x) of an optional string: None and "" are falsy
Truthy(x) == x # None /\ x[1] # ""

RECURSIVE IntToStrNat(_)
IntToStrNat(n) ==
    LET d == <<"0", "1", "2", "3", "4", "5", "6", "7", "8", "9">>
    IN IF n < 10 THEN <<d[n + 1]>> ELSE IntToStrNat(n \div 10) \o <<d[(n % 10) + 1]>>

\* str(n) of an int, as the f-string formats it
IntToStr(n) == IF n < 0 THEN <<"-">> \o IntToStrNat(0 - n) ELSE IntToStrNat(n)

\* needle in hay, for two texts
IsSubstring(needle, hay) ==
    \E i \in 0..(Len(hay) - Len(needle)) :
        \A k \in 1..Len(needle) : hay[i + k] = needle[k]

RECURSIVE SplitSkippingEmpty(_, _)
\* a split that drops the empty parts, as s.split() without a separator does
SplitSkippingEmpty(s, sep) ==
    IF \A i \in 1..Len(s) : s[i] # sep
    THEN IF s = <<>> THEN <<>> ELSE <<s>>
    ELSE LET i == CHOOSE j \in 1..Len(s) :
                      s[j] = sep /\ \A k \in 1..(j - 1) : s[k] # sep
         IN (IF i = 1 THEN <<>> ELSE <<SubSeq(s, 1, i - 1)>>)
                \o SplitSkippingEmpty(SubSeq(s, i + 1, Len(s)), sep)

RECURSIVE Split(_, _)
\* s.split(sep) for a one-piece separator
Split(s, sep) ==
    IF \A i \in 1..Len(s) : s[i] # sep
    THEN <<s>>
    ELSE LET i == CHOOSE j \in 1..Len(s) :
                      s[j] = sep /\ \A k \in 1..(j - 1) : s[k] # sep
         IN <<SubSeq(s, 1, i - 1)>> \o Split(SubSeq(s, i + 1, Len(s)), sep)

RECURSIVE Join(_, _)
\* sep.join(parts)
Join(parts, sep) ==
    IF parts = <<>> THEN <<>>
    ELSE IF Len(parts) = 1 THEN parts[1]
    ELSE parts[1] \o <<sep>> \o Join(Tail(parts), sep)

----------------------------------------------------------------------------
(* JSON values *)

JNull == [kind |-> "null"]
JNum(n) == [kind |-> "num", n |-> n]
JStr(s) == [kind |-> "str", s |-> s]
JArr(items) == [kind |-> "array", items |-> items]
JObj(members) == [kind |-> "object", members |-> members]

\* exceptions
ConnectError == [type |-> "ConnectError"]
HTTPStatusError(resp) == [type |-> "HTTPStatusError", response |-> resp]
JSONDecodeError == [type |-> "JSONDecodeError"]
TypeError == [type |-> "TypeError"]
KeyError(k) == [type |-> "KeyError", key |-> k]

\* the result of evaluating an expression: a value, or an exception raised
Ok(v) == [ok |-> TRUE, val |-> v]
Raised(e) == [ok |-> FALSE, exc |-> e]

HasKey(members, k) == \E i \in 1..Len(members) : members[i][1] = k

\* d[k] of a dict: the value of the last pair set for k
Lookup(members, k) ==
    LET i == CHOOSE j \in 1..Len(members) :
                 members[j][1] = k /\ \A m \in (j + 1)..Len(members) : members[m][1] # k
    IN members[i][2]

\* key in v, for a decoded JSON value v and a string key
Contains(v, key) ==
    CASE v.kind = "object" -> Ok(HasKey(v.members, key))
      [] v.kind = "array" -> Ok(\E i \in 1..Len(v.items) : v.items[i] = JStr(key))
      [] v.kind = "str" -> Ok(IsSubstring(key, v.s))
      [] OTHER -> Raised(TypeError)

\* v[key], for a decoded JSON value v
GetItem(v, key) ==
    CASE v.kind = "object" ->
             IF HasKey(v.members, key) THEN Ok(Lookup(v.members, key))
             ELSE Raised(KeyError(key))
      [] OTHER -> Raised(TypeError)

----------------------------------------------------------------------------
(* json.loads and json.dumps, over texts whose pieces are the digits, the    *)
(* punctuation { } : , and " and the pieces of string contents (no           *)
(* whitespace, no arrays, no literals: the alphabet of ValueStrings below)   *)

Digits == <<"0", "1", "2", "3", "4", "5", "6", "7", "8", "9">>
IsDigit(t) == \E i \in 1..10 : Digits[i] = t
DigitVal(t) == (CHOOSE i \in 1..10 : Digits[i] = t) - 1

\* the length of the run of digits that toks starts with
RECURSIVE DigitRun(_)
DigitRun(toks) ==
    IF toks = <<>> \/ ~IsDigit(Head(toks)) THEN 0 ELSE 1 + DigitRun(Tail(toks))

\* the number of pieces of toks before its first "
RECURSIVE UpToQuote(_)
UpToQuote(toks) ==
    IF toks = <<>> \/ Head(toks) = "\"" THEN 0 ELSE 1 + UpToQuote(Tail(toks))

RECURSIVE StrToNat(_)
StrToNat(ds) ==
    IF Len(ds) = 1 THEN DigitVal(ds[1])
    ELSE 10 * StrToNat(SubSeq(ds, 1, Len(ds) - 1)) + DigitVal(ds[Len(ds)])

Drop(toks, n) == SubSeq(toks, n + 1, Len(toks))

ParseFail == [ok |-> FALSE]
Parsed(v, rest) == [ok |-> TRUE, val |-> v, rest |-> rest]

\* d[k] = v of a dict
SetMember(members, k, v) ==
    IF HasKey(members, k)
    THEN [i \in 1..Len(members) |->
              IF members[i][1] = k THEN <<k, v>> ELSE members[i]]
    ELSE Append(members, <<k, v>>)

\* a string: " pieces "
ParseString(toks) ==
    IF toks = <<>> \/ Head(toks) # "\"" THEN ParseFail
    ELSE LET n == UpToQuote(Tail(toks))
         IN IF n + 2 > Len(toks) THEN ParseFail
            ELSE Parsed(SubSeq(toks, 2, n + 1), Drop(toks, n + 2))

RECURSIVE ParseValue(_), ParseMembers(_, _)
ParseValue(toks) ==
    IF toks = <<>> THEN ParseFail
    ELSE IF IsDigit(Head(toks)) THEN
        LET n == DigitRun(toks)
        IN IF n > 1 /\ Head(toks) = "0" THEN Parsed(JNum(0), Tail(toks))
           ELSE Parsed(JNum(StrToNat(SubSeq(toks, 1, n))), Drop(toks, n))
    ELSE IF Head(toks) = "\"" THEN
        LET s == ParseString(toks)
        IN IF s.ok THEN Parsed(JStr(s.val), s.rest) ELSE ParseFail
    ELSE IF Head(toks) = "{" THEN
        IF Len(toks) >= 2 /\ toks[2] = "}" THEN Parsed(JObj(<<>>), Drop(toks, 2))
        ELSE ParseMembers(Tail(toks), <<>>)
    ELSE ParseFail

ParseMembers(toks, acc) ==
    LET k == ParseString(toks)
    IN IF ~k.ok \/ k.rest = <<>> \/ Head(k.rest) # ":" THEN ParseFail
       ELSE LET v == ParseValue(Tail(k.rest))
            IN IF ~v.ok \/ v.rest = <<>> THEN ParseFail
               ELSE LET acc2 == SetMember(acc, k.val, v.val)
                    IN IF Head(v.rest) = "}" THEN Parsed(JObj(acc2), Tail(v.rest))
                       ELSE IF Head(v.rest) = "," THEN ParseMembers(Tail(v.rest), acc2)
                       ELSE ParseFail

\* json.loads(text)
JsonLoads(text) ==
    LET p == ParseValue(text)
    IN IF p.ok /\ p.rest = <<>> THEN Ok(p.val) ELSE Raised(JSONDecodeError)

RECURSIVE JsonDumps(_), DumpMembers(_)
\* json.dumps(v), without the blanks it puts after , and :
JsonDumps(v) ==
    CASE v.kind = "num" -> IntToStr(v.n)
      [] v.kind = "str" -> <<"\"">> \o v.s \o <<"\"">>
      [] v.kind = "null" -> <<"null">>
      [] v.kind = "object" -> <<"{">> \o DumpMembers(v.members) \o <<"}">>
      [] v.kind = "array" ->
             <<"[">> \o Join([i \in 1..Len(v.items) |-> JsonDumps(v.items[i])], ",")
                 \o <<"]">>

DumpMembers(members) ==
    Join([i \in 1..Len(members) |->
              <<"\"">> \o members[i][1] \o <<"\"", ":">> \o JsonDumps(members[i][2])],
         ",")

----------------------------------------------------------------------------
(* HTTP: what the server (or the network) answers, and the events of a call *)

TransportFailure == [kind |-> "transport"]
\* content: whether the body is empty, some non-JSON text, or JSON (then body)
Response(status, content, body) ==
    [kind |-> "response", status |-> status, content |-> content, body |-> body]

\* httpx.Response.is_success
IsSuccess(resp) == resp.status >= 200 /\ resp.status <= 299

\* httpx.Response.json()
ResponseJson(resp) ==
    IF resp.content = "json" THEN Ok(resp.body) ELSE Raised(JSONDecodeError)

\* hasattr(e, "response"); every response object has the method json
HasResponse(e) == "response" \in DOMAIN e

Request(req) == [ev |-> "request", req |-> req]
LogError(x) == [ev |-> "log", arg |-> x]
Echo(line) == [ev |-> "echo", line |-> line]
PrintTable(rows) == [ev |-> "table", rows |-> rows]
PrintTotal(n) == [ev |-> "total", n |-> n]

\* what a call did: its events in order, then its result
Did(events, result) == [events |-> events, result |-> result]

----------------------------------------------------------------------------
(* class Feedback *)

feedback_create_url == <<"/api/v1/feedback">>

HeaderNames == {"x-log10-token", "x-log10-organization-id", "Content-Type"}

\* __init__: the headers set on the http client
InitHeaders(config) ==
    [h \in HeaderNames |->
        CASE h = "x-log10-token" -> config.token
          [] h = "x-log10-organization-id" -> config.org_id
          [] h = "Content-Type" -> "application/json"]

\* Feedback(log10_config)
Feedback(config) == [log10_config |-> config, http_headers |-> InitHeaders(config)]

\* self._http_client.post / .get followed by res.raise_for_status()
Send(reply) ==
    IF reply.kind = "transport" THEN Raised(ConnectError)
    ELSE IF ~IsSuccess(reply) THEN Raised(HTTPStatusError(reply))
    ELSE Ok(reply)

\* the except block of _post_request
PostExcept(e) ==
    LET log1 == <<LogError(e)>>
    IN  IF ~HasResponse(e) THEN Did(log1, Raised(e))
        ELSE LET j == ResponseJson(e.response)
             IN IF ~j.ok THEN Did(log1, Raised(j.exc))
                ELSE LET c == Contains(j.val, <<"error">>)
                     IN IF ~c.ok THEN Did(log1, Raised(c.exc))
                        ELSE IF ~c.val THEN Did(log1, Raised(e))
                        ELSE LET g == GetItem(j.val, <<"error">>)
                             IN IF ~g.ok THEN Did(log1, Raised(g.exc))
                                ELSE Did(log1 \o <<LogError(g.val)>>, Raised(e))

\* the payload after json_payload["organization_id"] = org_id
WithOrganization(json_payload, org_id) ==
    [k \in DOMAIN json_payload \cup {"organization_id"} |->
        IF k = "organization_id" THEN org_id ELSE json_payload[k]]

\* a client that tries once more when the request fails
PostRequestRetrying(self, url, json_payload, reply) ==
    LET payload == WithOrganization(json_payload, self.log10_config.org_id)
        req == [method |-> "POST",
                url |-> <<self.log10_config.url>> \o url,
                headers |-> self.http_headers,
                json |-> payload]
        res == Send(reply)
    IN  IF res.ok THEN Did(<<Request(req)>>, Ok(res.val))
        ELSE LET h == PostExcept(res.exc)
             IN Did(<<Request(req), Request(req)>> \o h.events, h.result)

PostRequest(self, url, json_payload, reply) ==
    LET payload == WithOrganization(json_payload, self.log10_config.org_id)
        req == [method |-> "POST",
                url |-> <<self.log10_config.url>> \o url,
                headers |-> self.http_headers,
                json |-> payload]
        res == Send(reply)
    IN  IF res.ok THEN Did(<<Request(req)>>, Ok(res.val))
        ELSE LET h == PostExcept(res.exc)
             IN Did(<<Request(req)>> \o h.events, h.result)

Create(self, task_id, values, completion_tags_selector, comment, reply) ==
    PostRequest(self, feedback_create_url,
                [task_id |-> task_id,
                 json_values |-> values,
                 completion_tags_selector |-> completion_tags_selector,
                 comment |-> comment],
                reply)

\* the url that list builds with its f-string
ListUrl(self, offset, limit) ==
    <<self.log10_config.url, "/api/v1/feedback", "?",
      "organization_id", "=", self.log10_config.org_id, "&",
      "offset", "=">> \o IntToStr(offset) \o <<"&", "limit", "=">> \o IntToStr(limit)

\* an except block that logs the server's message before the exception
ListExceptMessageFirst(e) ==
    LET log1 == <<LogError(e)>>
    IN  IF ~HasResponse(e) THEN Did(log1, Raised(e))
        ELSE LET j == ResponseJson(e.response)
             IN IF ~j.ok THEN Did(log1, Raised(j.exc))
                ELSE LET c == Contains(j.val, <<"error">>)
                     IN IF ~c.ok THEN Did(log1, Raised(c.exc))
                        ELSE IF ~c.val THEN Did(log1, Raised(e))
                        ELSE LET g == GetItem(j.val, <<"error">>)
                             IN IF ~g.ok THEN Did(log1, Raised(g.exc))
                                ELSE Did(<<LogError(g.val)>> \o log1, Raised(e))

\* the except block of list
ListExcept(e) ==
    LET log1 == <<LogError(e)>>
    IN  IF ~HasResponse(e) THEN Did(log1, Raised(e))
        ELSE LET j == ResponseJson(e.response)
             IN IF ~j.ok THEN Did(log1, Raised(j.exc))
                ELSE LET c == Contains(j.val, <<"error">>)
                     IN IF ~c.ok THEN Did(log1, Raised(c.exc))
                        ELSE IF ~c.val THEN Did(log1, Raised(e))
                        ELSE LET g == GetItem(j.val, <<"error">>)
                             IN IF ~g.ok THEN Did(log1, Raised(g.exc))
                                ELSE Did(log1 \o <<LogError(g.val)>>, Raised(e))

\* a list that passes the task_id filter on to the server
ListSendingTaskId(self, offset, limit, task_id, reply) ==
    LET req == [method |-> "GET",
                url |-> ListUrl(self, offset, limit)
                            \o (IF task_id = None THEN <<>>
                                ELSE <<"&", "task_id", "=", task_id[1]>>),
                headers |-> self.http_headers]
        res == Send(reply)
    IN  IF res.ok THEN Did(<<Request(req)>>, Ok(res.val))
        ELSE LET h == ListExcept(res.exc)
             IN Did(<<Request(req)>> \o h.events, h.result)

List(self, offset, limit, task_id, reply) ==
    LET req == [method |-> "GET",
                url |-> ListUrl(self, offset, limit),
                headers |-> self.http_headers]
        res == Send(reply)
    IN  IF res.ok THEN Did(<<Request(req)>>, Ok(res.val))
        ELSE LET h == ListExcept(res.exc)
             IN Did(<<Request(req)>> \o h.events, h.result)

----------------------------------------------------------------------------
(* The click commands *)

\* what a command returns
NoValue == [kind |-> "None"]

\* a command that sends the text as it is when it cannot be parsed
CreateFeedbackLenient(config, task_id, values, completion_tags_selector, comment, reply) ==
    LET echo1 == <<Echo([text |-> "Creating feedback"])>>
        tags == Split(completion_tags_selector, ",")
        v == JsonLoads(values)
        sent == IF v.ok THEN v.val ELSE JStr(values)
        c == Create(Feedback(config), task_id, sent, tags, comment, reply)
    IN  IF ~c.result.ok THEN Did(echo1 \o c.events, c.result)
        ELSE LET j == ResponseJson(c.result.val)
             IN IF ~j.ok THEN Did(echo1 \o c.events, Raised(j.exc))
                ELSE Did(echo1 \o c.events \o <<Echo([json |-> j.val])>>, Ok(NoValue))

CreateFeedback(config, task_id, values, completion_tags_selector, comment, reply) ==
    LET echo1 == <<Echo([text |-> "Creating feedback"])>>
        tags == Split(completion_tags_selector, ",")
        v == JsonLoads(values)
    IN  IF ~v.ok THEN Did(echo1, Raised(v.exc))
        ELSE LET c == Create(Feedback(config), task_id, v.val, tags, comment, reply)
             IN IF ~c.result.ok THEN Did(echo1 \o c.events, c.result)
                ELSE LET j == ResponseJson(c.result.val)
                     IN IF ~j.ok THEN Did(echo1 \o c.events, Raised(j.exc))
                        ELSE Did(echo1 \o c.events \o <<Echo([json |-> j.val])>>,
                                 Ok(NoValue))

\* an except block that reports and raises again, as the client's do
ListFeedbackExceptRaising(e) ==
    Did(<<Echo([text |-> "Error fetching feedback", exc |-> e])>>, Raised(e))

\* the except block of list_feedback
ListFeedbackExcept(e) ==
    LET echo1 == <<Echo([text |-> "Error fetching feedback", exc |-> e])>>
    IN  IF ~HasResponse(e) THEN Did(echo1, Ok(NoValue))
        ELSE LET j == ResponseJson(e.response)
             IN IF ~j.ok THEN Did(echo1, Raised(j.exc))
                ELSE LET c == Contains(j.val, <<"error">>)
                     IN IF ~c.ok THEN Did(echo1, Raised(c.exc))
                        ELSE IF ~c.val THEN Did(echo1, Ok(NoValue))
                        ELSE LET g == GetItem(j.val, <<"error">>)
                             IN IF ~g.ok THEN Did(echo1, Raised(g.exc))
                                ELSE Did(echo1 \o <<Echo([value |-> g.val])>>, Ok(NoValue))

\* feedback["task_id"] == task_id
TaskIdEquals(f, task_id) ==
    LET t == GetItem(f, <<"task_id">>)
    IN IF ~t.ok THEN t ELSE Ok(t.val.kind = "str" /\ t.val.s = task_id)

\* a filter that keeps every record
FilterByTaskKeepingAll(items, task_id) == Ok(items)

RECURSIVE FilterByTask(_, _)
\* [feedback for feedback in feedback_data if feedback["task_id"] == task_id]
FilterByTask(items, task_id) ==
    IF items = <<>> THEN Ok(<<>>)
    ELSE LET m == TaskIdEquals(Head(items), task_id)
         IN IF ~m.ok THEN m
            ELSE LET rest == FilterByTask(Tail(items), task_id)
                 IN IF ~rest.ok THEN rest
                    ELSE Ok(IF m.val THEN <<Head(items)>> \o rest.val ELSE rest.val)

\* ",".join(ids) of a list of strings
JoinIds(v) ==
    IF v.kind # "array" \/ \E i \in 1..Len(v.items) : v.items[i].kind # "str"
    THEN Raised(TypeError)
    ELSE Ok(Join([i \in 1..Len(v.items) |-> v.items[i].s], ","))

\* the dict appended to data_for_table for one feedback
TableRow(f) ==
    LET id == GetItem(f, <<"id">>)
        name == GetItem(f, <<"task_name">>)
        vals == GetItem(f, <<"json_values">>)
        ids == GetItem(f, <<"matched_completion_ids">>)
    IN  IF ~id.ok THEN id
        ELSE IF ~name.ok THEN name
        ELSE IF ~vals.ok THEN vals
        ELSE IF ~ids.ok THEN ids
        ELSE LET joined == JoinIds(ids.val)
             IN IF ~joined.ok THEN joined
                ELSE Ok([id |-> id.val,
                         task_name |-> name.val,
                         feedback |-> JsonDumps(vals.val),
                         matched_completion_ids |-> joined.val])

RECURSIVE TableRows(_)
TableRows(items) ==
    IF items = <<>> THEN Ok(<<>>)
    ELSE LET r == TableRow(Head(items))
         IN IF ~r.ok THEN r
            ELSE LET rest == TableRows(Tail(items))
                 IN IF ~rest.ok THEN rest ELSE Ok(<<r.val>> \o rest.val)

\* list_feedback after the fetch: filter, build the rows, print
ShowFeedback(res, task_id) ==
    LET j == ResponseJson(res)
    IN  IF ~j.ok THEN Did(<<>>, Raised(j.exc))
        ELSE LET d == GetItem(j.val, <<"data">>)
             IN IF ~d.ok THEN Did(<<>>, Raised(d.exc))
                ELSE IF d.val.kind # "array" THEN Did(<<>>, Raised(TypeError))
                ELSE LET feedback_data ==
                             IF Truthy(task_id) THEN FilterByTask(d.val.items, task_id)
                             ELSE Ok(d.val.items)
                     IN IF ~feedback_data.ok THEN Did(<<>>, Raised(feedback_data.exc))
                        ELSE LET rows == TableRows(feedback_data.val)
                             IN IF ~rows.ok THEN Did(<<>>, Raised(rows.exc))
                                ELSE Did(<<PrintTable(rows.val),
                                           PrintTotal(Len(feedback_data.val))>>,
                                         Ok(NoValue))

ListFeedback(config, offset, limit, task_id, reply) ==
    LET l == List(Feedback(config), offset, limit, None, reply)
    IN  IF ~l.result.ok
        THEN LET h == ListFeedbackExcept(l.result.exc)
             IN Did(l.events \o h.events, h.result)
        ELSE LET p == ShowFeedback(l.result.val, task_id)
             IN Did(l.events \o p.events, p.result)

----------------------------------------------------------------------------
(* Inputs: configurations, arguments, and what the server answers *)

Configs ==
    { [url |-> "https://log10.io", token |-> "token1", org_id |-> "org1"],
      [url |-> "http://localhost:3000", token |-> "token2", org_id |-> "org2"] }

TaskIds == {"T1"}
Values == { JObj(<< <<<<"score">>, JNum(5)>> >>) }
TagLists == { <<<<"tagA">>, <<"tagB">>>> }
Comments == {None, Str("nice")}
CliComments == {Str(""), Str("nice")}
TaskFilters == {None, Str(""), Str("a"), Str("b")}
Pages == { <<0, 25>>, <<10, 1>> }

\* texts of at most n pieces over the alphabet
RECURSIVE Texts(_, _)
Texts(alphabet, n) ==
    IF n = 0 THEN {<<>>}
    ELSE LET shorter == Texts(alphabet, n - 1)
         IN shorter \cup {Append(t, c) : t \in shorter, c \in alphabet}

Selectors == Texts({"tagA", "tagB", ","}, MaxSel)

\* --values: five JSON texts and four that are not JSON
ValueStrings ==
    { <<"5">>,
      <<"4", "2">>,
      <<"\"", "good", "\"">>,
      <<"{", "}">>,
      <<"{", "\"", "score", "\"", ":", "5", "}">>,
      <<"{", "\"", "score", "\"", ":", "5", ",", "\"", "by", "\"", ":",
        "{", "\"", "id", "\"", ":", "7", "}", "}">>,
      <<>>,
      <<"{">>,
      <<"{", "\"", "score", "\"", "5", "}">>,
      <<"0", "5">>,
      <<"score">> }

FeedbackRecord(id, task_id) ==
    JObj(<< <<<<"id">>, JStr(<<id>>)>>,
            <<<<"task_id">>, JStr(<<task_id>>)>>,
            <<<<"task_name">>, JStr(<<"summarize">>)>>,
            <<<<"json_values">>, JObj(<< <<<<"score">>, JNum(5)>> >>)>>,
            <<<<"matched_completion_ids">>, JArr(<<JStr(<<"c1">>), JStr(<<"c2">>)>>)>> >>)

\* a record that lacks one of the keys
Without(f, key) ==
    JObj(SelectSeq(f.members, LAMBDA m : m[1] # key))

ServerRecords ==
    { FeedbackRecord("f1", "a"),
      FeedbackRecord("f2", "b"),
      Without(FeedbackRecord("f3", "a"), <<"task_id">>),
      Without(FeedbackRecord("f4", "b"), <<"task_name">>) }

RECURSIVE Arrays(_, _)
Arrays(elements, n) ==
    IF n = 0 THEN {<<>>}
    ELSE LET shorter == Arrays(elements, n - 1)
         IN shorter \cup {Append(a, e) : a \in shorter, e \in elements}

DataArrays == Arrays(ServerRecords, MaxData)

ErrorBodies ==
    { JObj(<< <<<<"error">>, JStr(<<"quota exceeded">>)>> >>),
      JObj(<< <<<<"detail">>, JStr(<<"not found">>)>> >>),
      JArr(<<JStr(<<"error">>)>>),
      JStr(<<"internal ", "error">>),
      JNum(5),
      JNull }

FailReplies ==
    {TransportFailure, Response(500, "empty", JNull), Response(502, "text", JNull)}
        \cup {Response(429, "json", b) : b \in ErrorBodies}

Page(data) == Response(200, "json", JObj(<< <<<<"data">>, JArr(data)>> >>))

CreateReplies ==
    FailReplies \cup { Response(200, "json", JObj(<< <<<<"id">>, JStr(<<"f9">>)>> >>)),
                       Response(201, "empty", JNull) }

ListReplies ==
    FailReplies \cup { Page(<<FeedbackRecord("f1", "a"), FeedbackRecord("f2", "b")>>),
                       Page(<<>>) }

ListFeedbackReplies ==
    FailReplies \cup {Page(d) : d \in DataArrays}
        \cup { Response(200, "text", JNull),
               Response(200, "json", JObj(<<>>)),
               Response(200, "json", JObj(<< <<<<"data">>, JNull>> >>)) }

----------------------------------------------------------------------------
(* The state machine *)

\* the client instance a program holds
Self == [log10_config |-> log10_config, http_headers |-> http_headers]

Call(op, args, reply, did) ==
    [op |-> op, args |-> args, reply |-> reply,
     events |-> did.events, result |-> did.result]

\* the calls so far are calls on the client instance (no command has run)
ClientCalls == \A i \in 1..Len(history) : history[i].op \in {"create", "list"}

Init ==
    /\ log10_config \in Configs
    /\ http_headers = InitHeaders(log10_config)
    /\ history = <<>>

\* a create that overwrites a header of the shared http client with a value of the call
create_marking_headers(task_id, values, completion_tags_selector, comment, reply) ==
    /\ ClientCalls
    /\ history' = Append(history,
           Call("create",
                [task_id |-> task_id, values |-> values,
                 completion_tags_selector |-> completion_tags_selector,
                 comment |-> comment],
                reply,
                Create(Self, task_id, values, completion_tags_selector, comment, reply)))
    /\ http_headers' = [http_headers EXCEPT !["x-log10-organization-id"] = task_id]
    /\ UNCHANGED log10_config

create(task_id, values, completion_tags_selector, comment, reply) ==
    /\ ClientCalls
    /\ history' = Append(history,
           Call("create",
                [task_id |-> task_id, values |-> values,
                 completion_tags_selector |-> completion_tags_selector,
                 comment |-> comment],
                reply,
                Create(Self, task_id, values, completion_tags_selector, comment, reply)))
    /\ UNCHANGED <<log10_config, http_headers>>

\* a list that drops the Content-Type header once it has sent its GET
list_dropping_content_type(offset, limit, task_id, reply) ==
    /\ ClientCalls
    /\ history' = Append(history,
           Call("list",
                [offset |-> offset, limit |-> limit, task_id |-> task_id],
                reply,
                List(Self, offset, limit, task_id, reply)))
    /\ http_headers' = [h \in DOMAIN http_headers \ {"Content-Type"} |-> http_headers[h]]
    /\ UNCHANGED log10_config

list(offset, limit, task_id, reply) ==
    /\ ClientCalls
    /\ history' = Append(history,
           Call("list",
                [offset |-> offset, limit |-> limit, task_id |-> task_id],
                reply,
                List(Self, offset, limit, task_id, reply)))
    /\ UNCHANGED <<log10_config, http_headers>>

\* a command is a process of its own: it runs once, with its own client
create_feedback(task_id, values, completion_tags_selector, comment, reply) ==
    /\ history = <<>>
    /\ history' = <<Call("create_feedback",
                         [task_id |-> task_id, values |-> values,
                          completion_tags_selector |-> completion_tags_selector,
                          comment |-> comment],
                         reply,
                         CreateFeedback(log10_config, task_id, values,
                                        completion_tags_selector, comment, reply))>>
    /\ UNCHANGED <<log10_config, http_headers>>

list_feedback(offset, limit, task_id, reply) ==
    /\ history = <<>>
    /\ history' = <<Call("list_feedback",
                         [offset |-> offset, limit |-> limit, task_id |-> task_id],
                         reply,
                         ListFeedback(log10_config, offset, limit, task_id, reply))>>
    /\ UNCHANGED <<log10_config, http_headers>>

Next ==
    \/ /\ Len(history) < MaxCalls
       /\ \E task_id \in TaskIds, values \in Values, tags \in TagLists,
             comment \in Comments, reply \in CreateReplies :
              create(task_id, values, tags, comment, reply)
    \/ /\ Len(history) < MaxCalls
       /\ \E page \in Pages, task_id \in {None, Str("a")}, reply \in ListReplies :
              list(page[1], page[2], task_id, reply)
    \/ /\ history = <<>>
       /\ \E task_id \in TaskIds, values \in ValueStrings, selector \in Selectors,
             comment \in CliComments, reply \in CreateReplies :
              create_feedback(task_id, values, selector, comment, reply)
    \/ /\ history = <<>>
       /\ \E page \in Pages, task_id \in TaskFilters, reply \in ListFeedbackReplies :
              list_feedback(page[1], page[2], task_id, reply)

Spec == Init /\ [][Next]_vars

\* a program that keeps one client and calls it repeatedly
SessionCreateReplies ==
    { Response(200, "json", JObj(<< <<<<"id">>, JStr(<<"f9">>)>> >>)),
      TransportFailure,
      Response(429, "json", JObj(<< <<<<"error">>, JStr(<<"quota exceeded">>)>> >>)) }

SessionListReplies ==
    { Page(<<FeedbackRecord("f1", "a")>>),
      Page(<<FeedbackRecord("f1", "a"), FeedbackRecord("f2", "b")>>),
      TransportFailure,
      Response(502, "text", JNull) }

SessionNext ==
    \/ /\ Len(history) < MaxSession
       /\ \E task_id \in TaskIds, values \in Values, tags \in TagLists,
             comment \in Comments, reply \in SessionCreateReplies :
              create(task_id, values, tags, comment, reply)
    \/ /\ Len(history) < MaxSession
       /\ \E page \in Pages, reply \in SessionListReplies :
              list(page[1], page[2], None, reply)

SessionSpec == Init /\ [][SessionNext]_vars

----------------------------------------------------------------------------
(* Reading a call of the history *)

CallsOf(ops) == {i \in 1..Len(history) : history[i].op \in ops}

RequestsOf(c) == SelectSeq(c.events, LAMBDA e : e.ev = "request")
LogsOf(c) == SelectSeq(c.events, LAMBDA e : e.ev = "log")
EchoesOf(c) == SelectSeq(c.events, LAMBDA e : e.ev = "echo")
Printed(c, what) == \E k \in 1..Len(c.events) : c.events[k].ev = what

\* the request failed: no response at all, or a status outside 2xx
RequestFailed(c) ==
    c.reply.kind = "transport" \/ c.reply.status < 200 \/ c.reply.status > 299

\* the exception that the request raised
OriginalException(c) ==
    IF c.reply.kind = "transport" THEN [type |-> "ConnectError"]
    ELSE [type |-> "HTTPStatusError", response |-> c.reply]

\* the response body is a JSON object with the key error
CarriesErrorKey(c) ==
    /\ c.reply.kind = "response"
    /\ c.reply.content = "json"
    /\ c.reply.body.kind = "object"
    /\ \E k \in 1..Len(c.reply.body.members) : c.reply.body.members[k][1] = <<"error">>

ErrorValue(c) ==
    LET m == c.reply.body.members
    IN m[CHOOSE k \in 1..Len(m) : m[k][1] = <<"error">>][2]

FeedbackUrl == <<log10_config.url, "/api/v1/feedback">>

PayloadKeys ==
    {"task_id", "json_values", "completion_tags_selector", "comment", "organization_id"}

\* the --values texts of ValueStrings that are not JSON
NotJson ==
    { <<>>, <<"{">>, <<"{", "\"", "score", "\"", "5", "}">>, <<"0", "5">>, <<"score">> }

----------------------------------------------------------------------------
(* Properties of create and list *)

\* C1: every create call (comment supplied or not, request succeeding or
\* failing) issues exactly one request, a POST to <base_url>/api/v1/feedback,
\* whose JSON body has the keys task_id, json_values, completion_tags_selector
\* and comment plus organization_id, the organization id of the configuration.
C1_CreateSendsOnePost ==
    \A i \in CallsOf({"create"}) :
        LET c == history[i]
            reqs == RequestsOf(c)
        IN  /\ Len(reqs) = 1
            /\ reqs[1].req.method = "POST"
            /\ reqs[1].req.url = FeedbackUrl
            /\ DOMAIN reqs[1].req.json = PayloadKeys
            /\ reqs[1].req.json.organization_id = log10_config.org_id
            /\ reqs[1].req.json.comment = c.args.comment

\* a session with a failed create that omitted the comment and a successful
\* one that supplied it
C1_Witness ==
    /\ \E i \in CallsOf({"create"}) :
           /\ history[i].args.comment = None
           /\ RequestFailed(history[i])
           /\ Len(RequestsOf(history[i])) = 1
    /\ \E i \in CallsOf({"create"}) :
           /\ history[i].args.comment = Str("nice")
           /\ ~RequestFailed(history[i])
           /\ history[i].result.ok

\* the pieces of a url after its ?
QueryOf(url) ==
    LET q == CHOOSE k \in 1..Len(url) : url[k] = "?" /\ \A m \in 1..(k - 1) : url[m] # "?"
    IN SubSeq(url, q + 1, Len(url))

PathOf(url) ==
    LET q == CHOOSE k \in 1..Len(url) : url[k] = "?" /\ \A m \in 1..(k - 1) : url[m] # "?"
    IN SubSeq(url, 1, q - 1)

\* the key=value parameters of a query string, as <<key, value>> texts
ParamsOf(query) ==
    LET ps == Split(query, "&")
    IN [k \in 1..Len(ps) |-> Split(ps[k], "=")]

AllDigits(text) == text # <<>> /\ \A k \in 1..Len(text) : IsDigit(text[k])

\* C2: every list call with offset >= 0 and limit > 0, and every run of
\* list-feedback, issues exactly one request, a GET to
\* <base_url>/api/v1/feedback whose query string has exactly the parameters
\* organization_id (the configured organization id), offset and limit with the
\* values passed in; the task_id argument appears nowhere in the request.
C2_ListSendsOneGet ==
    \A i \in CallsOf({"list", "list_feedback"}) :
        LET c == history[i]
            reqs == RequestsOf(c)
            url == reqs[1].req.url
            params == ParamsOf(QueryOf(url))
        IN  (c.args.offset >= 0 /\ c.args.limit > 0) =>
            /\ Len(reqs) = 1
            /\ reqs[1].req.method = "GET"
            /\ DOMAIN reqs[1].req = {"method", "url", "headers"}
            /\ \E k \in 1..Len(url) : url[k] = "?"
            /\ PathOf(url) = FeedbackUrl
            /\ Len(params) = 3
            /\ \A k \in 1..3 : Len(params[k]) = 2
            /\ params[1] = << <<"organization_id">>, <<log10_config.org_id>> >>
            /\ params[2][1] = <<"offset">>
            /\ AllDigits(params[2][2]) /\ StrToNat(params[2][2]) = c.args.offset
            /\ params[3][1] = <<"limit">>
            /\ AllDigits(params[3][2]) /\ StrToNat(params[3][2]) = c.args.limit
            /\ \A k \in 1..Len(url) :
                   /\ url[k] # "task_id"
                   /\ c.args.task_id # None => url[k] # c.args.task_id[1]
            /\ DOMAIN reqs[1].req.headers = HeaderNames

\* a list call that was given a task_id and a non-zero offset
C2_Witness ==
    \E i \in CallsOf({"list"}) :
        /\ history[i].args.task_id = Str("a")
        /\ history[i].args.offset = 10
        /\ Len(RequestsOf(history[i])) = 1

\* C3: when the request of a create or list call fails (transport failure or
\* non-2xx status, whatever the response body), the call makes no second
\* request and ends by raising the very exception the request raised.
C3_OriginalExceptionReachesCaller ==
    \A i \in CallsOf({"create", "list"}) :
        LET c == history[i]
        IN  RequestFailed(c) =>
            /\ Len(RequestsOf(c)) = 1
            /\ c.result = [ok |-> FALSE, exc |-> OriginalException(c)]

\* C4: on a failed request of create or list, the exception is logged first;
\* when the response body is a JSON object with the key error, the value of
\* that key is logged next and nothing else; otherwise nothing more is logged;
\* the call then ends by raising an exception.
C4_LogsBeforeRaising ==
    \A i \in CallsOf({"create", "list"}) :
        LET c == history[i]
        IN  RequestFailed(c) =>
            /\ ~c.result.ok
            /\ c.events[1].ev = "request"
            /\ IF CarriesErrorKey(c)
               THEN Tail(c.events) = << [ev |-> "log", arg |-> OriginalException(c)],
                                        [ev |-> "log", arg |-> ErrorValue(c)] >>
               ELSE Tail(c.events) = << [ev |-> "log", arg |-> OriginalException(c)] >>

\* a create and a list that both failed with the body {"error": "quota exceeded"},
\* and a call that failed without any response
C4_Witness ==
    /\ \E i \in CallsOf({"create"}) :
           CarriesErrorKey(history[i]) /\ Len(LogsOf(history[i])) = 2
    /\ \E i \in CallsOf({"list"}) :
           /\ RequestFailed(history[i])
           /\ CarriesErrorKey(history[i])
           /\ LogsOf(history[i])[2].arg = JStr(<<"quota exceeded">>)

----------------------------------------------------------------------------
(* Properties of list-feedback *)

FeedbackKeys ==
    { <<"id">>, <<"task_id">>, <<"task_name">>, <<"json_values">>,
      <<"matched_completion_ids">> }

Field(f, key) ==
    f.members[CHOOSE k \in 1..Len(f.members) : f.members[k][1] = key][2]

\* the response is a page whose data array holds complete feedback records
FeedbackPage(c) ==
    /\ c.reply.kind = "response"
    /\ c.reply.status = 200
    /\ c.reply.content = "json"
    /\ c.reply.body.kind = "object"
    /\ \E k \in 1..Len(c.reply.body.members) : c.reply.body.members[k][1] = <<"data">>
    /\ Field(c.reply.body, <<"data">>).kind = "array"
    /\ \A k \in 1..Len(Field(c.reply.body, <<"data">>).items) :
           LET f == Field(c.reply.body, <<"data">>).items[k]
           IN \A key \in FeedbackKeys : \E m \in 1..Len(f.members) : f.members[m][1] = key

DataOf(c) == Field(c.reply.body, <<"data">>).items

\* the records of data whose task_id is the text t, in their order
Matching(data, t) ==
    SelectSeq(data, LAMBDA f : Field(f, <<"task_id">>) = [kind |-> "str", s |-> t])

\* the run printed one table, with one row per record of expected in that
\* order, and then the total, the number of rows
Shows(c, expected) ==
    LET tables == SelectSeq(c.events, LAMBDA e : e.ev = "table")
        totals == SelectSeq(c.events, LAMBDA e : e.ev = "total")
    IN  /\ Len(tables) = 1 /\ Len(totals) = 1
        /\ Len(c.events) = 3 /\ c.events[2].ev = "table" /\ c.events[3].ev = "total"
        /\ Len(tables[1].rows) = Len(expected)
        /\ \A k \in 1..Len(expected) :
               /\ tables[1].rows[k].id = Field(expected[k], <<"id">>)
               /\ tables[1].rows[k].task_name = Field(expected[k], <<"task_name">>)
        /\ totals[1].n = Len(tables[1].rows)

\* C5 as stated: for every page of feedback records and every --task_id t, the
\* rows are the records whose task_id equals t when t is provided, all records
\* when it is not, and the total is the number of rows.
C5_RowsAreTheMatchingRecords ==
    \A i \in CallsOf({"list_feedback"}) :
        LET c == history[i]
        IN  FeedbackPage(c) =>
                Shows(c, IF c.args.task_id # None
                         THEN Matching(DataOf(c), c.args.task_id)
                         ELSE DataOf(c))

\* C5 amended: the rows are the records whose task_id equals t when t is
\* provided and is not the empty string; they are all records when t is not
\* provided or is the empty string; the total is the number of rows.
C5_RowsMatchNonEmptyFilter ==
    \A i \in CallsOf({"list_feedback"}) :
        LET c == history[i]
        IN  FeedbackPage(c) =>
                Shows(c, IF c.args.task_id # None /\ c.args.task_id # Str("")
                         THEN Matching(DataOf(c), c.args.task_id)
                         ELSE DataOf(c))

\* a run with filter "a" on a page [a, b]: one row, total 1
C5_Witness ==
    \E i \in CallsOf({"list_feedback"}) :
        LET c == history[i]
        IN  /\ FeedbackPage(c)
            /\ c.args.task_id = Str("a")
            /\ Len(DataOf(c)) = 2
            /\ Field(DataOf(c)[1], <<"task_id">>) = JStr(<<"a">>)
            /\ Field(DataOf(c)[2], <<"task_id">>) = JStr(<<"b">>)
            /\ c.events[3] = [ev |-> "total", n |-> 1]

IsErrorLine(e) ==
    e.ev = "echo" /\ "text" \in DOMAIN e.line /\ e.line.text = "Error fetching feedback"

\* C6 as stated: every run of list-feedback returns normally; a run that met a
\* failure (of the request, or while processing the response) printed an
\* error line and neither a table nor a total.
C6_NothingEscapesListFeedback ==
    \A i \in CallsOf({"list_feedback"}) :
        LET c == history[i]
        IN  /\ c.result.ok
            /\ (RequestFailed(c) \/ ~Printed(c, "table")) =>
                   /\ \E k \in 1..Len(c.events) : IsErrorLine(c.events[k])
                   /\ ~Printed(c, "table")
                   /\ ~Printed(c, "total")

\* C6 amended: when the fetch fails (transport failure or non-2xx status, with
\* any body), the run prints the error line first, prints neither table nor
\* total, and returns normally; a failure while processing a fetched response
\* is not caught: it leaves the command, which has printed nothing.
C6_FetchFailuresAreCaught ==
    \A i \in CallsOf({"list_feedback"}) :
        LET c == history[i]
        IN  /\ RequestFailed(c) =>
                   /\ c.result = [ok |-> TRUE, val |-> NoValue]
                   /\ EchoesOf(c) # <<>>
                   /\ IsErrorLine(EchoesOf(c)[1])
                   /\ ~Printed(c, "table")
                   /\ ~Printed(c, "total")
            /\ (~RequestFailed(c) /\ ~c.result.ok) =>
                   /\ EchoesOf(c) = <<>>
                   /\ ~Printed(c, "table")
                   /\ ~Printed(c, "total")
            /\ (~RequestFailed(c) /\ c.result.ok) => Printed(c, "table")

\* a run whose fetch got a 502 with a body that is not JSON, and one line out
C6_Witness ==
    \E i \in CallsOf({"list_feedback"}) :
        LET c == history[i]
        IN  /\ c.reply.kind = "response"
            /\ c.reply.status = 502
            /\ c.result.ok
            /\ Len(EchoesOf(c)) = 1

----------------------------------------------------------------------------
(* Properties of create-feedback *)

\* C7: when --values is not JSON, create-feedback issues no request and ends
\* with the parse error leaving the command; when create raises, that
\* exception leaves the command too.
C7_ParseErrorBeforeAnyRequest ==
    \A i \in CallsOf({"create_feedback"}) :
        LET c == history[i]
        IN  /\ c.args.values \in NotJson =>
                   /\ RequestsOf(c) = <<>>
                   /\ c.result = [ok |-> FALSE, exc |-> [type |-> "JSONDecodeError"]]
            /\ (c.args.values \notin NotJson /\ RequestFailed(c)) =>
                   /\ Len(RequestsOf(c)) = 1
                   /\ ~c.result.ok
                   /\ c.result =
                          Create(Feedback(log10_config), c.args.task_id,
                                 c.events[2].req.json.json_values,
                                 c.events[2].req.json.completion_tags_selector,
                                 c.args.comment, c.reply).result

\* a run with --values "{" that ended in the parse error
C7_Witness ==
    \E i \in CallsOf({"create_feedback"}) :
        /\ history[i].args.values = <<"{">>
        /\ ~history[i].result.ok
        /\ history[i].events = <<[ev |-> "echo", line |-> [text |-> "Creating feedback"]]>>

CountOf(text, piece) == Cardinality({k \in 1..Len(text) : text[k] = piece})

\* C9: for every create-feedback run with task id T, JSON --values V, selector
\* S and comment C, the one POST has the body {task_id: T, json_values: the
\* value V denotes, completion_tags_selector: the parts of S between its
\* commas, in order, comment: C, organization_id: the configured org id}.
C9_CreateFeedbackBody ==
    \A i \in CallsOf({"create_feedback"}) :
        LET c == history[i]
            reqs == RequestsOf(c)
            body == reqs[1].req.json
            tags == body.completion_tags_selector
        IN  c.args.values \notin NotJson =>
            /\ Len(reqs) = 1
            /\ reqs[1].req.method = "POST"
            /\ DOMAIN body = PayloadKeys
            /\ body.task_id = c.args.task_id
            /\ JsonDumps(body.json_values) = c.args.values
            /\ Len(tags) = CountOf(c.args.completion_tags_selector, ",") + 1
            /\ \A k \in 1..Len(tags) : CountOf(tags[k], ",") = 0
            /\ Join(tags, ",") = c.args.completion_tags_selector
            /\ (c.args.completion_tags_selector = <<"tagA", ",", "tagB">>
                    => tags = << <<"tagA">>, <<"tagB">> >>)
            /\ body.comment = c.args.comment
            /\ body.organization_id = log10_config.org_id

\* the run create-feedback --task_id T1 --values {"score":5}
\* --completion_tags_selector tagA,tagB --comment nice
C9_Witness ==
    \E i \in CallsOf({"create_feedback"}) :
        LET c == history[i]
        IN  /\ c.args.values = <<"{", "\"", "score", "\"", ":", "5", "}">>
            /\ c.args.completion_tags_selector = <<"tagA", ",", "tagB">>
            /\ c.args.comment = Str("nice")
            /\ Len(RequestsOf(c)) = 1
            /\ c.result.ok

----------------------------------------------------------------------------
(* Properties of a session on one client instance *)

\* C8: two list calls of a session with the same arguments that get the same
\* answer from the server send the same request and have the same outcome,
\* whatever calls were made before or between them.
C8_ListIsIdempotent ==
    \A i, j \in CallsOf({"list"}) :
        (history[i].args = history[j].args /\ history[i].reply = history[j].reply) =>
            /\ RequestsOf(history[i]) = RequestsOf(history[j])
            /\ history[i].events = history[j].events
            /\ history[i].result = history[j].result

\* list, then a create, then the same list with the same answer
C8_Witness ==
    /\ Len(history) = 3
    /\ history[1].op = "list" /\ history[2].op = "create" /\ history[3].op = "list"
    /\ history[1].args = history[3].args
    /\ history[1].reply = history[3].reply
    /\ history[2].result.ok

\* C10: no create or list call changes the configuration or the header set,
\* and every request of the session carries the headers x-log10-token,
\* x-log10-organization-id and Content-Type: application/json with the
\* values of the configuration.
C10_ConfigAndHeadersFixed ==
    /\ [][log10_config' = log10_config /\ http_headers' = http_headers]_vars
    /\ [](\A i \in CallsOf({"create", "list"}) :
              \A k \in 1..Len(RequestsOf(history[i])) :
                  LET h == RequestsOf(history[i])[k].req.headers
                  IN  /\ DOMAIN h = HeaderNames
                      /\ h["x-log10-token"] = log10_config.token
                      /\ h["x-log10-organization-id"] = log10_config.org_id
                      /\ h["Content-Type"] = "application/json")

\* a failed create, a list, and a third call after them
C10_Witness ==
    /\ Len(history) = 3
    /\ history[1].op = "create" /\ ~history[1].result.ok
    /\ history[2].op = "list" /\ history[2].result.ok
    /\ Len(RequestsOf(history[3])) = 1

====
